---- MODULE Spec2Model ----
(***************************************************************************)
(* A model of the notebook "ta_Basic PyTorch Tutorial.ipynb": the          *)
(* synthetic dataset, the data loaders, the epoch runner                    *)
(* single_epoch_loop, the training driver and the checkpoint save/load.    *)
(*                                                                         *)
(* Abstractions.  A sample (256 values, 4 chunks of 64) is kept as the     *)
(* vector of its 4 chunk means, each an integer level.  The network is a   *)
(* one-weight network with the layers of MyModel.forward (centre, linear,  *)
(* ReLU, dropout, linear).  A float is an exact fraction <<num, den>> in   *)
(* lowest terms.  Adam's update rule is not part of the notebook: a step   *)
(* may move the weight anywhere in ParamSpace.  Python indices are kept    *)
(* 0-based; TLA+ sequences are 1-based, hence the "+ 1" where a sequence   *)
(* is read.                                                                *)
(***************************************************************************)
EXTENDS Integers, Sequences, FiniteSets, TLC

\* ------------------------------------------------------------ constants
NumChunks == 4
NumEpochs == 20
ProgTrainN == 40000
ProgTestN == 10000
ProgBatch == 256

\* ------------------------------------------------------------ bounds
MaxBright == 1
MaxN == 2
MaxLoaderN == 4
MaxB == 2
MaxW == 1
MaxDropped == 1
MaxStep == 1
MaxEpoch == 2
DrvTrainN == 1
DrvTestN == 1
DrvBatch == 1

\* ------------------------------------------------------------ helpers
Abs(a) == IF a < 0 THEN 0 - a ELSE a

RECURSIVE GCD(_, _)
GCD(a, b) == IF b = 0 THEN a ELSE GCD(b, a % b)

RECURSIVE SumSeq(_)
SumSeq(s) == IF s = <<>> THEN 0 ELSE Head(s) + SumSeq(Tail(s))

MaxOf(v) == CHOOSE m \in {v[k] : k \in DOMAIN v} : \A k \in DOMAIN v : v[k] <= m

\* tensor.argmax: the lowest 0-based position holding the maximum
ArgMax(v) == (CHOOSE k \in DOMAIN v :
                 /\ v[k] = MaxOf(v)
                 /\ \A j \in DOMAIN v : j < k => v[j] < v[k]) - 1

\* Python's true division of two ints: the quotient as an exact fraction
Ratio(n, d) == LET g == GCD(Abs(n), d) IN <<n \div g, d \div g>>

\* a <= b for fractions with positive denominators (used by the history
\* variable best_seen only)
RatLeq(a, b) == a[1] * b[2] <= b[1] * a[2]

Perms(n) == {p \in [1..n -> 0..(n - 1)] : \A i, j \in 1..n : p[i] = p[j] => i = j}

\* ------------------------------------------------------------ MyDataset
\* torch.rand(N, 256), seen through its chunk means
SampleSpace == {s \in [1..NumChunks -> 0..MaxBright] : SumSeq(s) <= MaxBright}

\* labels = samples.reshape(N, 4, -1).mean(-1).argmax(1)
MakeLabels(samples) == [i \in 1..Len(samples) |-> ArgMax(samples[i])]

\* MyDataset(N) for one outcome of torch.rand
MyDataset(samples) == [samples |-> samples, labels |-> MakeLabels(samples)]

DatasetLen(d) == Len(d.samples)

\* mutant: a negative index wraps at any distance
TensorIndexWrapAll(n, index) ==
  IF index >= n THEN -1 ELSE index % n

\* the position a tensor index selects: Python wraps a negative index once
TensorIndex(n, index) ==
  IF 0 <= index /\ index < n THEN index
  ELSE IF 0 - n <= index /\ index < 0 THEN index + n
  ELSE -1

GetItem(d, index) ==
  LET p == TensorIndex(DatasetLen(d), index) IN
  IF p < 0 THEN [kind |-> "IndexError", index |-> index]
  ELSE [kind |-> "ok", index |-> index,
        sample |-> d.samples[p + 1], label |-> d.labels[p + 1]]

Datasets(n) == {MyDataset(s) : s \in [1..n -> SampleSpace]}

\* ------------------------------------------------------------ DataLoader
DataLoader(d, batch_size, shuffle, drop_last) ==
  [dataset |-> d, batch_size |-> batch_size, shuffle |-> shuffle,
   drop_last |-> drop_last]

\* RandomSampler draws a fresh permutation, SequentialSampler is range(N)
SamplerOrders(l) ==
  IF l.shuffle THEN Perms(DatasetLen(l.dataset))
  ELSE {[i \in 1..DatasetLen(l.dataset) |-> i - 1]}

\* mutant: the incomplete last batch is kept whatever drop_last says
BatchTakeKeepLast(n, b, drop_last, pos) ==
  IF n - pos >= b THEN b ELSE n - pos

\* BatchSampler: how many indices the next batch takes; 0 ends the pass
BatchTake(n, b, drop_last, pos) ==
  IF n - pos >= b THEN b
  ELSE IF drop_last THEN 0
  ELSE n - pos

NextIndices(l, order, pos) ==
  LET k == BatchTake(DatasetLen(l.dataset), l.batch_size, l.drop_last, pos) IN
  [i \in 1..k |-> order[pos + i]]

\* the default collate of the items the dataset returns for the indices
\* train_loader: shuffled, the incomplete last batch dropped
TrainLoader(d, batch_size) == DataLoader(d, batch_size, TRUE, TRUE)

\* test_loader: in order, the incomplete last batch kept
TestLoader(d, batch_size) == DataLoader(d, batch_size, FALSE, FALSE)

Collate(l, idx) ==
  [samples |-> [i \in 1..Len(idx) |-> GetItem(l.dataset, idx[i]).sample],
   labels |-> [i \in 1..Len(idx) |-> GetItem(l.dataset, idx[i]).label]]

\* ------------------------------------------------------------ MyModel
ParamSpace == (0 - MaxW)..MaxW

\* x - 0.5, doubled so that the centred level stays an integer
Center(v) == 2 * v - MaxBright

ReLU(a) == IF a > 0 THEN a ELSE 0

\* nn.Dropout: the (row, unit) pairs zeroed in one forward call; none in eval mode
DropMasks(n, training) ==
  IF training
  THEN {m \in SUBSET ((1..n) \X (1..NumChunks)) : Cardinality(m) <= MaxDropped}
  ELSE {{}}

\* MyModel.forward on a batch: centre, linear, ReLU, dropout, linear (readout)
Forward(weight, samples, mask) ==
  [i \in 1..Len(samples) |->
     [k \in 1..NumChunks |->
        IF <<i, k>> \in mask THEN 0 ELSE ReLU(weight * Center(samples[i][k]))]]

\* F.cross_entropy, mean reduction; max stands for log-sum-exp
CrossEntropy(out, labels) ==
  Ratio(SumSeq([i \in 1..Len(out) |-> MaxOf(out[i]) - out[i][labels[i] + 1]]),
        Len(out))

\* (out.argmax(1) == labels).sum().item()
NumCorrect(out, labels) ==
  Cardinality({i \in 1..Len(out) : ArgMax(out[i]) = labels[i]})

\* optimizer.zero_grad(): the set of losses accumulated in .grad is emptied
ZeroGrad(grad) == {}

\* loss.backward(): the gradient of this loss is added to .grad
Backward(grad, lossId) == grad \cup {lossId}

\* Adam.step(): the weights it may produce, and its step count
StepWeights(weight, grad) == ParamSpace

StepState(state) == [step |-> state.step + 1]

\* ------------------------------------------------------------ state
VARIABLES
  dataset,            \* the dataset __getitem__ is called on
  got,                \* what the last __getitem__ call gave
  lpass,              \* one pass of a loader: [loader, order, pos, yielded, pc]
  model,              \* [weight, training, grad]
  optimizer,          \* Adam's state: [step]
  grad_enabled,       \* FALSE inside torch.no_grad()
  frame,              \* the activation of single_epoch_loop
  ret,                \* what the last call of single_epoch_loop gave
  hist,               \* history of the running call
  train_loader, test_loader,
  epoch, dpc,         \* the driver's loop variable and position
  train_res, test_res,
  printed,            \* [count, line]: lines printed, and the last one
  best_seen,          \* history: the best test accuracy of the epochs run
  passes,             \* history: [train, test], the passes completed
  ckpt_file,          \* contents of ckpt.pt
  ckpnt,              \* what torch.load returned
  start_epoch, val_acc_prev_best,
  saved               \* history: the values handed to torch.save

vars == <<dataset, got, lpass, model, optimizer, grad_enabled, frame, ret, hist,
          train_loader, test_loader, epoch, dpc, train_res, test_res, printed,
          best_seen, passes, ckpt_file, ckpnt, start_epoch, val_acc_prev_best, saved>>

dataVars == <<dataset, got>>
netVars == <<model, optimizer, grad_enabled>>
callVars == <<frame, ret, hist>>
driverVars == <<train_loader, test_loader, epoch, dpc, train_res, test_res,
                printed, best_seen, passes>>
ckptVars == <<ckpt_file, ckpnt, start_epoch, val_acc_prev_best, saved>>

None == [kind |-> "None"]

NoFrame == [pc |-> "idle"]

NoHist == [fetched |-> <<>>, batches |-> <<>>, steps |-> <<>>,
           weight0 |-> 0, opt0 |-> None, pre |-> 0]

NoPass == [pc |-> "idle"]

DataIdle == dataset = None /\ got = None
NetIdle == model = None /\ optimizer = None /\ grad_enabled = TRUE
CallIdle == frame = NoFrame /\ ret = None /\ hist = NoHist
DriverIdle ==
  /\ train_loader = None /\ test_loader = None
  /\ epoch = -1 /\ dpc = "idle"
  /\ train_res = None /\ test_res = None
  /\ printed = [count |-> 0, line |-> <<>>]
  /\ best_seen = None
  /\ passes = [train |-> 0, test |-> 0]
CkptIdle ==
  /\ ckpt_file = None /\ ckpnt = None
  /\ start_epoch = None /\ val_acc_prev_best = None /\ saved = None

\* MyModel(256, 4): random initial weights, training mode, no gradient yet
NewModels == {[weight |-> w, training |-> TRUE, grad |-> {}] : w \in ParamSpace}

\* Adam(model.parameters(), lr=5e-4)
NewAdam == [step |-> 0]

\* ------------------------------------------------------------ __getitem__
Indices == (0 - MaxN - 1)..(MaxN + 1)

CallGetItem(index) ==
  /\ got' = GetItem(dataset, index)
  /\ UNCHANGED <<dataset, lpass, netVars, callVars, driverVars, ckptVars>>

InitDataset ==
  /\ \E n \in 1..MaxN : dataset \in Datasets(n)
  /\ got = None
  /\ lpass = NoPass
  /\ NetIdle /\ CallIdle /\ DriverIdle /\ CkptIdle

NextDataset == \E index \in Indices : CallGetItem(index)

SpecDataset == InitDataset /\ [][NextDataset]_vars

\* ------------------------------------------------------------ a loader pass
\* iter(loader): a fresh sampler order
LoaderIter ==
  /\ lpass.pc = "iter"
  /\ \E o \in SamplerOrders(lpass.loader) :
       lpass' = [lpass EXCEPT !.order = o, !.pos = 0, !.yielded = <<>>,
                              !.pc = "next"]
  /\ UNCHANGED <<dataVars, netVars, callVars, driverVars, ckptVars>>

\* next(iterator): one batch of indices, or the end of the pass
LoaderNext ==
  /\ lpass.pc = "next"
  /\ LET idx == NextIndices(lpass.loader, lpass.order, lpass.pos) IN
       IF Len(idx) = 0
       THEN lpass' = [lpass EXCEPT !.pc = "stop"]
       ELSE lpass' = [lpass EXCEPT !.pos = @ + Len(idx),
                                   !.yielded = Append(@, idx)]
  /\ UNCHANGED <<dataVars, netVars, callVars, driverVars, ckptVars>>

\* the next epoch iterates the same loader again
LoaderRestart ==
  /\ lpass.pc = "stop"
  /\ lpass' = [loader |-> lpass.loader, order |-> <<>>, pos |-> 0,
               yielded |-> <<>>, pc |-> "iter"]
  /\ UNCHANGED <<dataVars, netVars, callVars, driverVars, ckptVars>>

Loaders(maxn) ==
  {DataLoader(d, b, sh, dl) :
     d \in UNION {Datasets(n) : n \in 1..maxn}, b \in 1..MaxB,
     sh \in BOOLEAN, dl \in BOOLEAN}

\* a pass reads len(dataset) and no sample: one sample value per dataset is enough
InitLoader ==
  /\ \E n \in 1..MaxLoaderN, x \in SampleSpace, b \in 1..MaxB,
        sh \in BOOLEAN, dl \in BOOLEAN :
       LET l == DataLoader(MyDataset([i \in 1..n |-> x]), b, sh, dl) IN
       lpass = [loader |-> l, order |-> <<>>, pos |-> 0, yielded |-> <<>>,
                pc |-> "iter"]
  /\ DataIdle /\ NetIdle /\ CallIdle /\ DriverIdle /\ CkptIdle

NextLoader == LoaderIter \/ LoaderNext \/ LoaderRestart

SpecLoader == InitLoader /\ [][NextLoader]_vars

\* ------------------------------------------------------------ single_epoch_loop
Modes == {"train", "test"}

\* n_samples, n_correct = 0, 0
NewFrame(mode, opt, loader) ==
  [pc |-> "iter", mode |-> mode, optimizer |-> opt, loader |-> loader,
   order |-> <<>>, pos |-> 0, batch |-> None, out |-> None, loss |-> None,
   n_samples |-> 0, n_correct |-> 0]

NewHist(m, o) ==
  [fetched |-> <<>>, batches |-> <<>>, steps |-> <<>>,
   weight0 |-> m.weight, opt0 |-> o, pre |-> m.weight]

\* what the loop adds to n_samples and n_correct for one batch
\* mutant: batches are counted instead of samples
AccSamplesPerBatch(n_samples, batch) == n_samples + 1

AccSamples(n_samples, batch) == n_samples + Len(batch.samples)

AccCorrect(n_correct, out, batch) == n_correct + NumCorrect(out, batch.labels)

\* mutant: the weights are updated in every mode
IsTrainAlways(mode) == TRUE

\* the condition under which the loop updates the weights
IsTrain(mode) == mode = "train"

\* mutant: an empty pass reports accuracy 0 instead of dividing
ReturnedGuarded(n_correct, n_samples, loss) ==
  IF n_samples = 0 THEN [kind |-> "ok", acc |-> <<0, 1>>, loss |-> <<0, 1>>]
  ELSE [kind |-> "ok", acc |-> Ratio(n_correct, n_samples), loss |-> loss.value]

\* return n_correct / n_samples, loss.item()
Returned(n_correct, n_samples, loss) ==
  IF n_samples = 0 THEN [kind |-> "error", exc |-> "ZeroDivisionError"]
  ELSE [kind |-> "ok", acc |-> Ratio(n_correct, n_samples), loss |-> loss.value]

\* for batch in loader: the iterator is created
LoopIter ==
  /\ frame.pc = "iter"
  /\ \E o \in SamplerOrders(frame.loader) :
       frame' = [frame EXCEPT !.order = o, !.pc = "for"]
  /\ UNCHANGED <<dataVars, lpass, netVars, ret, hist, driverVars, ckptVars>>

\* for batch in loader: the next batch, or the end of the loop
LoopFor ==
  /\ frame.pc = "for"
  /\ LET idx == NextIndices(frame.loader, frame.order, frame.pos) IN
       IF Len(idx) = 0
       THEN /\ frame' = [frame EXCEPT !.pc = "return"]
            /\ hist' = hist
       ELSE /\ frame' = [frame EXCEPT !.pos = @ + Len(idx),
                                      !.batch = Collate(frame.loader, idx),
                                      !.pc = "forward"]
            /\ hist' = [hist EXCEPT !.fetched = Append(@, idx)]
  /\ UNCHANGED <<dataVars, lpass, netVars, ret, driverVars, ckptVars>>

\* out = model(samples)
LoopForward ==
  /\ frame.pc = "forward"
  /\ \E mask \in DropMasks(Len(frame.batch.samples), model.training) :
       frame' = [frame EXCEPT
                   !.out = Forward(model.weight, frame.batch.samples, mask),
                   !.pc = "loss"]
  /\ hist' = [hist EXCEPT !.pre = model.weight]
  /\ UNCHANGED <<dataVars, lpass, netVars, ret, driverVars, ckptVars>>

\* mutant: the loss is accumulated over the batches of the epoch
LoopLossRunning ==
  /\ frame.pc = "loss"
  /\ LET prev == IF frame.loss = None THEN <<0, 1>> ELSE frame.loss.value
         ce == CrossEntropy(frame.out, frame.batch.labels)
     IN frame' = [frame EXCEPT
                    !.loss = [value |-> Ratio(prev[1] * ce[2] + ce[1] * prev[2],
                                              prev[2] * ce[2]),
                              id |-> Len(hist.fetched),
                              requires_grad |-> grad_enabled],
                    !.pc = "if_train"]
  /\ UNCHANGED <<dataVars, lpass, netVars, ret, hist, driverVars, ckptVars>>

\* loss = F.cross_entropy(out, labels)
LoopLoss ==
  /\ frame.pc = "loss"
  /\ frame' = [frame EXCEPT
                 !.loss = [value |-> CrossEntropy(frame.out, frame.batch.labels),
                           id |-> Len(hist.fetched),
                           requires_grad |-> grad_enabled],
                 !.pc = "if_train"]
  /\ UNCHANGED <<dataVars, lpass, netVars, ret, hist, driverVars, ckptVars>>

\* if mode == 'train':
LoopIfTrain ==
  /\ frame.pc = "if_train"
  /\ frame' = [frame EXCEPT
                 !.pc = IF IsTrain(frame.mode) THEN "zero_grad" ELSE "acc"]
  /\ UNCHANGED <<dataVars, lpass, netVars, ret, hist, driverVars, ckptVars>>

\* mutant: the update is skipped when no optimizer was passed
LoopZeroGradSkip ==
  /\ frame.pc = "zero_grad"
  /\ frame' = [frame EXCEPT
                 !.pc = IF frame.optimizer = "None" THEN "acc" ELSE "backward"]
  /\ model' = IF frame.optimizer = "None" THEN model
              ELSE [model EXCEPT !.grad = ZeroGrad(@)]
  /\ UNCHANGED <<dataVars, lpass, optimizer, grad_enabled, ret, hist, driverVars,
                 ckptVars>>

\* optimizer.zero_grad(); None has no such attribute
LoopZeroGrad ==
  /\ frame.pc = "zero_grad"
  /\ IF frame.optimizer = "None"
     THEN /\ frame' = [frame EXCEPT !.pc = "raised"]
          /\ ret' = [kind |-> "error", exc |-> "AttributeError"]
          /\ model' = model
     ELSE /\ frame' = [frame EXCEPT !.pc = "backward"]
          /\ ret' = ret
          /\ model' = [model EXCEPT !.grad = ZeroGrad(@)]
  /\ UNCHANGED <<dataVars, lpass, optimizer, grad_enabled, hist, driverVars,
                 ckptVars>>

\* loss.backward(); a loss computed under no_grad has no graph
LoopBackward ==
  /\ frame.pc = "backward"
  /\ IF ~frame.loss.requires_grad
     THEN /\ frame' = [frame EXCEPT !.pc = "raised"]
          /\ ret' = [kind |-> "error", exc |-> "RuntimeError"]
          /\ model' = model
     ELSE /\ frame' = [frame EXCEPT !.pc = "step"]
          /\ ret' = ret
          /\ model' = [model EXCEPT !.grad = Backward(@, frame.loss.id)]
  /\ UNCHANGED <<dataVars, lpass, optimizer, grad_enabled, hist, driverVars,
                 ckptVars>>

\* optimizer.step()
LoopStep ==
  /\ frame.pc = "step"
  /\ \E w \in StepWeights(model.weight, model.grad) :
       model' = [model EXCEPT !.weight = w]
  /\ optimizer' = StepState(optimizer)
  /\ hist' = [hist EXCEPT
                !.steps = Append(@, [fetched |-> Len(hist.fetched),
                                     grad |-> model.grad])]
  /\ frame' = [frame EXCEPT !.pc = "acc"]
  /\ UNCHANGED <<dataVars, lpass, grad_enabled, ret, driverVars, ckptVars>>

\* n_samples += len(samples); n_correct += (out.argmax(1) == labels).sum().item()
LoopAcc ==
  /\ frame.pc = "acc"
  /\ frame' = [frame EXCEPT
                 !.n_samples = AccSamples(@, frame.batch),
                 !.n_correct = AccCorrect(@, frame.out, frame.batch),
                 !.pc = "for"]
  /\ hist' = [hist EXCEPT
                !.batches =
                   Append(@, [size |-> Len(frame.batch.labels),
                              correct |->
                                 Cardinality({i \in 1..Len(frame.batch.labels) :
                                    ArgMax(frame.out[i]) = frame.batch.labels[i]}),
                              loss |-> frame.loss.value])]
  /\ UNCHANGED <<dataVars, lpass, netVars, ret, driverVars, ckptVars>>

\* return n_correct / n_samples, loss.item()
LoopReturn ==
  /\ frame.pc = "return"
  /\ ret' = Returned(frame.n_correct, frame.n_samples, frame.loss)
  /\ frame' = [frame EXCEPT !.pc = IF ret'.kind = "ok" THEN "done" ELSE "raised"]
  /\ UNCHANGED <<dataVars, lpass, netVars, hist, driverVars, ckptVars>>

Loop ==
  \/ LoopIter \/ LoopFor \/ LoopForward \/ LoopLoss \/ LoopIfTrain
  \/ LoopZeroGrad \/ LoopBackward \/ LoopStep \/ LoopAcc \/ LoopReturn

\* one call of single_epoch_loop with any arguments
InitEpoch ==
  /\ model \in NewModels
  /\ optimizer = NewAdam
  /\ grad_enabled \in BOOLEAN
  /\ \E mode \in Modes, opt \in {"None", "Adam"}, l \in Loaders(MaxN) :
       frame = NewFrame(mode, opt, l)
  /\ ret = None
  /\ hist = NewHist(model, optimizer)
  /\ lpass = NoPass
  /\ DataIdle /\ DriverIdle /\ CkptIdle

\* model.train() / model.eval() before the loop starts
ModelTrain ==
  /\ frame.pc = "iter"
  /\ ~model.training
  /\ model' = [model EXCEPT !.training = TRUE]
  /\ UNCHANGED <<dataVars, lpass, optimizer, grad_enabled, callVars, driverVars,
                 ckptVars>>

ModelEval ==
  /\ frame.pc = "iter"
  /\ model.training
  /\ model' = [model EXCEPT !.training = FALSE]
  /\ UNCHANGED <<dataVars, lpass, optimizer, grad_enabled, callVars, driverVars,
                 ckptVars>>

NextEpoch == Loop \/ ModelTrain \/ ModelEval

SpecEpoch == InitEpoch /\ [][NextEpoch]_vars

\* ------------------------------------------------------------ checkpoint
\* model.state_dict(): the parameters, not the mode and not the gradients
StateDict(m) == [weight |-> m.weight]

\* optimizer.state_dict()
OptStateDict(o) == [step |-> o.step]

\* the epoch number the checkpoint records
CkptEpoch(e) == e + 1

\* the dict handed to torch.save
Checkpoint(e, m, o, test_acc) ==
  [epoch |-> CkptEpoch(e), model_state_dict |-> StateDict(m),
   optimizer_state_dict |-> OptStateDict(o),
   best_acc |-> test_acc]

\* torch.save: the dict written out field by field
Pickle(d) ==
  <<d.epoch, d.model_state_dict.weight, d.optimizer_state_dict.step,
    d.best_acc[1], d.best_acc[2]>>

\* torch.load: the dict read back
Unpickle(f) ==
  [epoch |-> f[1], model_state_dict |-> [weight |-> f[2]],
   optimizer_state_dict |-> [step |-> f[3]], best_acc |-> <<f[4], f[5]>>]

\* model.load_state_dict(sd, strict=True)
LoadStateDict(m, sd) == [m EXCEPT !.weight = sd.weight]

\* mutant: the optimizer state read from the file is ignored
LoadOptStateDictIgnored(o, sd) == o

\* optimizer.load_state_dict(sd)
LoadOptStateDict(o, sd) == [o EXCEPT !.step = sd.step]

\* torch.save({...}, 'ckpt.pt')
Save ==
  /\ dpc = "save"
  /\ LET d == Checkpoint(epoch, model, optimizer, test_res.acc) IN
       /\ ckpt_file' = Pickle(d)
       /\ saved' = [epoch |-> epoch + 1, weight |-> model.weight,
                    optimizer |-> optimizer, test_acc |-> test_res.acc]
  /\ dpc' = "load"
  /\ UNCHANGED <<dataVars, lpass, netVars, callVars, train_loader, test_loader,
                 epoch, train_res, test_res, printed, best_seen, passes, ckpnt,
                 start_epoch, val_acc_prev_best>>

\* ckpnt = torch.load('ckpt.pt') and the four assignments after it
Load ==
  /\ dpc = "load"
  /\ ckpt_file # None
  /\ LET c == Unpickle(ckpt_file) IN
       /\ ckpnt' = c
       /\ model' = LoadStateDict(model, c.model_state_dict)
       /\ optimizer' = LoadOptStateDict(optimizer, c.optimizer_state_dict)
       /\ start_epoch' = c.epoch
       /\ val_acc_prev_best' = c.best_acc
  /\ dpc' = "end"
  /\ UNCHANGED <<dataVars, lpass, grad_enabled, callVars, train_loader,
                 test_loader, epoch, train_res, test_res, printed, best_seen, passes,
                 ckpt_file, saved>>

\* a new process before the load: model = MyModel(256, 4); optimizer = Adam(...)
Reinit ==
  /\ dpc = "load"
  /\ model' \in NewModels
  /\ optimizer' = NewAdam
  /\ UNCHANGED <<dataVars, lpass, grad_enabled, callVars, driverVars, ckptVars>>

\* the accuracies single_epoch_loop can return
Accuracies ==
  {Ratio(cn[1], cn[2]) : cn \in {x \in (0..MaxN) \X (1..MaxN) : x[1] <= x[2]}}

InitCkpt ==
  /\ model \in NewModels
  /\ optimizer \in {[step |-> n] : n \in 0..MaxStep}
  /\ grad_enabled = TRUE
  /\ epoch \in 0..MaxEpoch
  /\ dpc = "save"
  /\ \E a \in Accuracies : test_res = [kind |-> "ok", acc |-> a, loss |-> <<0, 1>>]
  /\ train_loader = None /\ test_loader = None /\ train_res = None
  /\ printed = [count |-> 0, line |-> <<>>]
  /\ best_seen = None
  /\ passes = [train |-> 0, test |-> 0]
  /\ lpass = NoPass
  /\ DataIdle /\ CallIdle /\ CkptIdle

NextCkpt == Save \/ Reinit \/ Load

SpecCkpt == InitCkpt /\ [][NextCkpt]_vars

\* ------------------------------------------------------------ training driver
\* for epoch in range(20): the next epoch, or the end of the loop.  test_acc
\* and test_loss are overwritten before they are read again when another
\* epoch follows, and are forgotten here then.
DriverFor ==
  /\ dpc = "for"
  /\ IF epoch + 1 < NumEpochs
     THEN epoch' = epoch + 1 /\ dpc' = "model_train" /\ test_res' = None
     ELSE epoch' = epoch /\ dpc' = "save" /\ test_res' = test_res
  /\ UNCHANGED <<dataVars, lpass, netVars, callVars, train_loader, test_loader,
                 train_res, printed, best_seen, passes, ckptVars>>

\* model.train()
DriverModelTrain ==
  /\ dpc = "model_train"
  /\ model' = [model EXCEPT !.training = TRUE]
  /\ dpc' = "call_train"
  /\ UNCHANGED <<dataVars, lpass, optimizer, grad_enabled, callVars,
                 train_loader, test_loader, epoch, train_res, test_res, printed,
                 best_seen, passes, ckptVars>>

\* single_epoch_loop(model, train_loader, optimizer, mode='train') is entered
DriverCallTrain ==
  /\ dpc = "call_train"
  /\ frame' = NewFrame("train", "Adam", train_loader)
  /\ hist' = NewHist(model, optimizer)
  /\ dpc' = "in_train"
  /\ UNCHANGED <<dataVars, lpass, netVars, ret, train_loader, test_loader, epoch,
                 train_res, test_res, printed, best_seen, passes, ckptVars>>

\* train_acc, train_loss = the value returned
DriverTrainReturn ==
  /\ dpc = "in_train"
  /\ frame.pc = "done"
  /\ train_res' = ret
  /\ frame' = NoFrame /\ ret' = None /\ hist' = NoHist
  /\ passes' = [passes EXCEPT !.train = @ + 1]
  /\ dpc' = "model_eval"
  /\ UNCHANGED <<dataVars, lpass, netVars, train_loader, test_loader,
                 epoch, test_res, printed, best_seen, ckptVars>>

\* mutant: the model is left in training mode for the evaluation pass
DriverModelEvalSkipped ==
  /\ dpc = "model_eval"
  /\ dpc' = "no_grad"
  /\ UNCHANGED <<dataVars, lpass, netVars, callVars, train_loader, test_loader,
                 epoch, train_res, test_res, printed, best_seen, passes, ckptVars>>

\* model.eval()
DriverModelEval ==
  /\ dpc = "model_eval"
  /\ model' = [model EXCEPT !.training = FALSE]
  /\ dpc' = "no_grad"
  /\ UNCHANGED <<dataVars, lpass, optimizer, grad_enabled, callVars,
                 train_loader, test_loader, epoch, train_res, test_res, printed,
                 best_seen, passes, ckptVars>>

\* with torch.no_grad():
DriverNoGrad ==
  /\ dpc = "no_grad"
  /\ grad_enabled' = FALSE
  /\ dpc' = "call_test"
  /\ UNCHANGED <<dataVars, lpass, model, optimizer, callVars, train_loader,
                 test_loader, epoch, train_res, test_res, printed, best_seen, passes,
                 ckptVars>>

\* single_epoch_loop(model, test_loader, mode='test') is entered
DriverCallTest ==
  /\ dpc = "call_test"
  /\ frame' = NewFrame("test", "None", test_loader)
  /\ hist' = NewHist(model, optimizer)
  /\ dpc' = "in_test"
  /\ UNCHANGED <<dataVars, lpass, netVars, ret, train_loader, test_loader, epoch,
                 train_res, test_res, printed, best_seen, passes, ckptVars>>

\* test_acc, test_loss = the value returned; the no_grad block is left
DriverTestReturn ==
  /\ dpc = "in_test"
  /\ frame.pc = "done"
  /\ test_res' = ret
  /\ best_seen' = IF best_seen = None \/ RatLeq(best_seen, ret.acc)
                  THEN ret.acc ELSE best_seen
  /\ grad_enabled' = TRUE
  /\ frame' = NoFrame /\ ret' = None /\ hist' = NoHist
  /\ passes' = [passes EXCEPT !.test = @ + 1]
  /\ dpc' = "print"
  /\ UNCHANGED <<dataVars, lpass, model, optimizer, train_loader,
                 test_loader, epoch, train_res, printed, ckptVars>>

\* print(epoch, train_acc, train_loss, test_acc, test_loss): the console is
\* kept as the number of lines and the epoch index of the last one.
\* train_acc and train_loss are not read again and are forgotten here.
DriverPrint ==
  /\ dpc = "print"
  /\ train_res.kind = "ok" /\ test_res.kind = "ok"
  /\ printed' = [count |-> printed.count + 1, line |-> <<epoch>>]
  /\ train_res' = None
  /\ dpc' = "for"
  /\ UNCHANGED <<dataVars, lpass, netVars, callVars, train_loader, test_loader,
                 epoch, test_res, best_seen, passes, ckptVars>>

Driver ==
  \/ DriverFor \/ DriverModelTrain \/ DriverCallTrain \/ DriverTrainReturn
  \/ DriverModelEval \/ DriverNoGrad \/ DriverCallTest \/ DriverTestReturn
  \/ DriverPrint

\* the notebook after its first four code cells, at a reduced size
Init ==
  /\ \E d \in Datasets(DrvTrainN) :
       train_loader = TrainLoader(d, DrvBatch)
  /\ \E d \in Datasets(DrvTestN) :
       test_loader = TestLoader(d, DrvBatch)
  /\ model \in NewModels
  /\ optimizer = NewAdam
  /\ grad_enabled = TRUE
  /\ epoch = -1
  /\ dpc = "for"
  /\ train_res = None /\ test_res = None
  /\ printed = [count |-> 0, line |-> <<>>]
  /\ best_seen = None
  /\ passes = [train |-> 0, test |-> 0]
  /\ lpass = NoPass
  /\ DataIdle /\ CallIdle /\ CkptIdle

Next == Driver \/ Loop \/ Save \/ Load

Spec == Init /\ [][Next]_vars

\* ============================================================ claims
RECURSIVE Flatten(_)
Flatten(ss) == IF ss = <<>> THEN <<>> ELSE Head(ss) \o Flatten(Tail(ss))

NoDup(q) == \A i, j \in 1..Len(q) : q[i] = q[j] => i = j

\* the batch sizes of one pass over n items, batch by batch
RECURSIVE PassSizes(_, _, _, _)
PassSizes(n, b, drop_last, pos) ==
  LET k == BatchTake(n, b, drop_last, pos) IN
  IF k = 0 THEN <<>> ELSE <<k>> \o PassSizes(n, b, drop_last, pos + k)

\* a full pass of a loader with the program's sizes obeys the batch-count rules
ProgramPasses ==
  LET d == MyDataset(<<>>)
      tr == PassSizes(ProgTrainN, ProgBatch, TrainLoader(d, ProgBatch).drop_last, 0)
      te == PassSizes(ProgTestN, ProgBatch, TestLoader(d, ProgBatch).drop_last, 0)
  IN /\ Len(tr) = ProgTrainN \div ProgBatch
     /\ \A k \in 1..Len(tr) : tr[k] = ProgBatch
     /\ SumSeq(te) = ProgTestN
     /\ \A k \in 1..(Len(te) - 1) : te[k] = ProgBatch
     /\ te[Len(te)] = ProgTestN % ProgBatch
     /\ ProgTestN % ProgBatch # 0

\* C8 as stated: __getitem__ returns the pair stored at position i for
\* 0 <= i < N and fails with an out-of-range error for every i >= N and
\* every i < 0.
C8_AsStated ==
  got # None =>
    LET n == DatasetLen(dataset) i == got.index IN
    IF 0 <= i /\ i < n
    THEN /\ got.kind = "ok"
         /\ got.sample = dataset.samples[i + 1]
         /\ got.label = dataset.labels[i + 1]
    ELSE got.kind = "IndexError"

\* C8 amended: __getitem__ returns the pair stored at position i for
\* 0 <= i < N, the pair stored at position N + i for -N <= i < 0, and fails
\* with an out-of-range error for every i >= N and every i < -N.
C8_GetItem ==
  got # None =>
    LET n == DatasetLen(dataset) i == got.index IN
    /\ (0 <= i /\ i < n) =>
         /\ got.kind = "ok"
         /\ got.sample = dataset.samples[i + 1]
         /\ got.label = dataset.labels[i + 1]
    /\ (0 - n <= i /\ i < 0) =>
         /\ got.kind = "ok"
         /\ got.sample = dataset.samples[n + i + 1]
         /\ got.label = dataset.labels[n + i + 1]
    /\ (i >= n \/ i < 0 - n) => got.kind = "IndexError"

\* a negative index in range answered with a stored pair that differs from
\* the pair at position 0
C8_Witness ==
  /\ got # None
  /\ got.kind = "ok"
  /\ got.index = -1
  /\ DatasetLen(dataset) = MaxN
  /\ got.sample # dataset.samples[1]

\* C9: one full pass yields each selected index once; with drop-last exactly
\* floor(N/B) batches of exactly B items; without it the sizes sum to N, only
\* the final batch may be smaller than B, and it exists only when N mod B is
\* not 0.  The same rules hold for the sizes 40000/256 and 10000/256.
C9_LoaderPass ==
  /\ ProgramPasses
  /\ lpass.pc = "stop" =>
       LET l == lpass.loader
           n == DatasetLen(l.dataset)
           b == l.batch_size
           y == lpass.yielded
           flat == Flatten(y)
       IN /\ NoDup(flat)
          /\ \A i \in 1..Len(flat) : flat[i] \in 0..(n - 1)
          /\ l.drop_last =>
               /\ Len(y) = n \div b
               /\ \A k \in 1..Len(y) : Len(y[k]) = b
          /\ ~l.drop_last =>
               /\ Len(flat) = n
               /\ \A k \in 1..(Len(y) - 1) : Len(y[k]) = b
               /\ Len(y) = (n \div b) + (IF n % b = 0 THEN 0 ELSE 1)
               /\ Len(y[Len(y)]) = (IF n % b = 0 THEN b ELSE n % b)

\* a finished shuffled pass that kept a smaller final batch after a full one
C9_Witness ==
  /\ lpass.pc = "stop"
  /\ ~lpass.loader.drop_last
  /\ lpass.loader.shuffle
  /\ Len(lpass.yielded) >= 2
  /\ Len(lpass.yielded[Len(lpass.yielded)]) < lpass.loader.batch_size
  /\ lpass.yielded[1][1] # 0

\* the loader of the running call yields no batch
EmptyLoader(l) ==
  BatchTake(DatasetLen(l.dataset), l.batch_size, l.drop_last, 0) = 0

Ended == frame.pc \in {"done", "raised"}

\* C10: when the loader yields no batch, single_epoch_loop in either mode
\* ends with a ZeroDivisionError and never returns a pair.
C10_EmptyFails ==
  EmptyLoader(frame.loader) =>
    /\ frame.pc # "done"
    /\ ret.kind # "ok"
    /\ frame.pc = "return" => frame.n_samples = 0
    /\ Ended => ret = [kind |-> "error", exc |-> "ZeroDivisionError"]
    /\ Ended \/ ENABLED Loop

\* a test-mode call over a drop-last loader with N < B that has failed
C10_Witness ==
  /\ EmptyLoader(frame.loader)
  /\ frame.mode = "test"
  /\ frame.pc = "raised"
  /\ ret.kind = "error"

\* C3: a call with mode 'train' and optimizer None never returns a pair: it
\* ends with an error, whatever the loader yields, and no weight and no
\* optimizer state has been updated when it does.
C3_TrainNeedsOptimizer ==
  (frame.mode = "train" /\ frame.optimizer = "None") =>
    /\ frame.pc # "done"
    /\ ret.kind # "ok"
    /\ Ended => ret.kind = "error"
    /\ Ended \/ ENABLED Loop
    /\ hist.steps = <<>>
    /\ model.weight = hist.weight0
    /\ optimizer = hist.opt0

\* such a call failed on its first batch, at optimizer.zero_grad()
C3_Witness ==
  /\ frame.mode = "train"
  /\ frame.optimizer = "None"
  /\ frame.pc = "raised"
  /\ ret = [kind |-> "error", exc |-> "AttributeError"]
  /\ Len(hist.fetched) = 1
  /\ ~EmptyLoader(frame.loader)

SumField(q, f) == SumSeq([i \in 1..Len(q) |-> q[i][f]])

\* C4: the accuracy returned is (correct samples over all batches) / (items
\* over all batches), a sample being correct when the argmax of its scores
\* equals its label; 0 <= n_correct <= n_samples after every processed batch,
\* so the accuracy lies in [0, 1].
C4_Accuracy ==
  /\ frame.pc # "idle" =>
       /\ 0 <= frame.n_correct
       /\ frame.n_correct <= frame.n_samples
       /\ frame.pc = "for" =>
            /\ frame.n_samples = Len(Flatten(hist.fetched))
            /\ frame.n_correct = SumField(hist.batches, "correct")
  /\ frame.pc = "done" =>
       /\ ret.kind = "ok"
       /\ SumField(hist.batches, "size") = Len(Flatten(hist.fetched))
       /\ SumField(hist.batches, "size") > 0
       /\ ret.acc[2] > 0
       /\ ret.acc[1] * SumField(hist.batches, "size")
            = SumField(hist.batches, "correct") * ret.acc[2]
       /\ 0 <= ret.acc[1]
       /\ ret.acc[1] <= ret.acc[2]

\* a call over two batches, one classified correctly and one not, returned
\* an accuracy strictly between 0 and 1
C4_Witness ==
  /\ frame.pc = "done"
  /\ Len(hist.batches) = 2
  /\ hist.batches[1].correct # hist.batches[2].correct
  /\ 0 < ret.acc[1]
  /\ ret.acc[1] < ret.acc[2]

\* C5: the loss returned is the cross-entropy of the last batch alone, on the
\* scores the model gave with the weights it had before that batch's
\* optimizer step; the losses of earlier batches play no part.
C5_LastBatchLoss ==
  frame.pc = "done" =>
    LET last == hist.fetched[Len(hist.fetched)] IN
    /\ ret.kind = "ok"
    /\ frame.batch = Collate(frame.loader, last)
    /\ \E mask \in DropMasks(Len(last), model.training) :
         frame.out = Forward(hist.pre, frame.batch.samples, mask)
    /\ ret.loss = CrossEntropy(frame.out, frame.batch.labels)
    /\ ret.loss = hist.batches[Len(hist.batches)].loss

\* a training call over two batches whose losses differ, the weight having
\* moved after the last scores were computed
C5_Witness ==
  /\ frame.pc = "done"
  /\ frame.mode = "train"
  /\ Len(hist.batches) = 2
  /\ hist.batches[1].loss # hist.batches[2].loss
  /\ ret.loss # <<0, 1>>
  /\ model.weight # hist.pre
  /\ ret.loss # CrossEntropy(Forward(model.weight, frame.batch.samples, {}),
                              frame.batch.labels)

C2_State ==
  /\ \A i \in 1..Len(hist.steps) :
       /\ hist.steps[i].fetched = i
       /\ hist.steps[i].grad = {i}
  /\ hist.opt0 # None => optimizer.step = hist.opt0.step + Len(hist.steps)
  /\ ~(frame.pc = "idle" \/ frame.mode = "train") =>
       /\ hist.steps = <<>>
       /\ model.weight = hist.weight0
       /\ optimizer = hist.opt0
  /\ (frame.pc \in {"for", "return", "done"} /\ frame.mode = "train") =>
       Len(hist.steps) = Len(hist.fetched)
  /\ (frame.pc = "done" /\ frame.mode = "train") =>
       Len(hist.steps) = Len(PassSizes(DatasetLen(frame.loader.dataset),
                                       frame.loader.batch_size,
                                       frame.loader.drop_last, 0))

C2_Step ==
  (model'.weight # model.weight \/ optimizer' # optimizer) =>
    /\ frame.pc = "step"
    /\ frame.mode = "train"
    /\ frame'.pc = "acc"
    /\ Len(hist'.steps) = Len(hist.steps) + 1

\* C2: weights and optimizer state change only at the optimizer step of a
\* call with mode 'train'; such a call over k batches takes exactly k steps,
\* one per batch, each after the gradients were cleared and this batch's loss
\* was back-propagated and before the next batch is fetched; a call with
\* another mode takes no step and leaves both unchanged, optimizer or not.
C2_StepsOnlyInTrain == [](C2_State) /\ [][C2_Step]_vars

\* a training call over two batches returned after two steps that moved the weight
C2_Witness ==
  /\ frame.pc = "done"
  /\ frame.mode = "train"
  /\ Len(hist.steps) = 2
  /\ model.weight # hist.weight0

InLoop ==
  dpc \in {"model_train", "call_train", "in_train", "model_eval", "no_grad",
           "call_test", "in_test", "print"}

\* C1: the driver runs epochs 0..19 in order and stops; in each epoch the
\* training pass (training mode, optimizer passed, mode 'train') is complete
\* before the evaluation pass (evaluation mode, no optimizer, mode 'test')
\* starts, and the epoch's one line is printed after both passes and before
\* the next epoch's training pass.
C1_EpochOrder ==
  /\ epoch \in -1..(NumEpochs - 1)
  /\ InLoop => epoch >= 0
  /\ dpc \in {"model_train", "call_train", "in_train"} =>
       /\ passes = [train |-> epoch, test |-> epoch]
       /\ printed.count = epoch
  /\ dpc = "in_train" =>
       /\ frame.pc # "idle"
       /\ frame.mode = "train"
       /\ frame.optimizer = "Adam"
       /\ frame.loader = train_loader
       /\ model.training
  /\ dpc \in {"model_eval", "no_grad", "call_test", "in_test"} =>
       /\ passes = [train |-> epoch + 1, test |-> epoch]
       /\ printed.count = epoch
       /\ train_res.kind = "ok"
  /\ dpc = "in_test" =>
       /\ frame.pc # "idle"
       /\ frame.mode = "test"
       /\ frame.optimizer = "None"
       /\ frame.loader = test_loader
       /\ ~model.training
  /\ dpc = "print" =>
       /\ passes = [train |-> epoch + 1, test |-> epoch + 1]
       /\ printed.count = epoch
  /\ dpc = "for" =>
       /\ passes = [train |-> epoch + 1, test |-> epoch + 1]
       /\ printed.count = epoch + 1
       /\ epoch >= 0 => printed.line = <<epoch>>
  /\ dpc \in {"save", "load", "end"} =>
       /\ epoch = NumEpochs - 1
       /\ passes = [train |-> NumEpochs, test |-> NumEpochs]
       /\ printed = [count |-> NumEpochs, line |-> <<NumEpochs - 1>>]
  /\ ~InLoop => frame.pc = "idle"

\* the loop has ended after the twentieth line
C1_Witness ==
  /\ dpc = "save"
  /\ epoch = NumEpochs - 1
  /\ printed.count = NumEpochs
  /\ optimizer.step >= NumEpochs

\* C6: the checkpoint's best-accuracy field holds the maximum test accuracy
\* observed over the epochs run so far.
C6_BestAccIsMax ==
  dpc \in {"load", "end"} => Unpickle(ckpt_file).best_acc = best_seen

\* C7: after save and load, weights and optimizer state equal what they were
\* at save time, start_epoch is the saved epoch value and val_acc_prev_best
\* the saved accuracy; the dict read equals the dict written.
C7_RoundTrip ==
  dpc = "end" =>
    /\ model.weight = saved.weight
    /\ optimizer = saved.optimizer
    /\ start_epoch = saved.epoch
    /\ val_acc_prev_best = saved.test_acc
    /\ ckpnt = [epoch |-> saved.epoch,
                model_state_dict |-> [weight |-> saved.weight],
                optimizer_state_dict |-> [step |-> saved.optimizer.step],
                best_acc |-> saved.test_acc]

\* a checkpoint with a negative weight, a non-zero step count and a
\* fractional accuracy was loaded
C7_Witness ==
  /\ dpc = "end"
  /\ start_epoch = MaxEpoch + 1
  /\ model.weight < 0
  /\ optimizer.step = MaxStep
  /\ val_acc_prev_best = <<1, 2>>

====
